---- MODULE Spec2Model ----
(***************************************************************************)
(* Model of the log-parsing and metric-derivation scripts of               *)
(* src/statistic: draw_scaled_merge.py (the aggregator), draw_scaled.py    *)
(* (the per-environment script), draw_increase_merge.py and                *)
(* draw_increase.py (the boot-log scripts).                                *)
(*                                                                         *)
(* Texts are sequences of tokens.  A token is a string that the code       *)
(* never cuts (a word, a number, one separator character).  Numbers are    *)
(* exact rationals [n, d] in lowest terms; the rounding of Python floats   *)
(* is not modelled.                                                        *)
(***************************************************************************)
EXTENDS Integers, Sequences, FiniteSets, TLC

\* ---------------------------------------------------------------- bounds
NUM_ENV == 2
NUM_SMP == 2
MaxLines == 3
MaxRows == 3
MaxTextLen == 6

\* --------------------------------------------------- program constants
THRESHOLD == 100000000
NS_SCALE == 1000000
MIN_FIELDS == 10

\* a file of the base directory: os.path.exists() and, if it exists, its text
ABSENT == [exists |-> FALSE, content |-> <<>>]
File(c) == [exists |-> TRUE, content |-> c]

\* ------------------------------------------------------------ rationals
Abs(x) == IF x < 0 THEN -x ELSE x

RECURSIVE GCD(_, _)
GCD(a, b) == IF b = 0 THEN a ELSE GCD(b, a % b)

Rat(n, d) == LET g == GCD(Abs(n), d) IN [n |-> n \div g, d |-> d \div g]

Zero == Rat(0, 1)

RatAdd(a, b) ==
    LET g == GCD(a.d, b.d)
        l == (a.d \div g) * b.d
    IN  Rat(a.n * (l \div a.d) + b.n * (l \div b.d), l)

RatNeg(a) == [n |-> 0 - a.n, d |-> a.d]

RatSub(a, b) == RatAdd(a, RatNeg(b))

\* a / b for b # 0
RatDiv(a, b) ==
    IF b.n > 0 THEN Rat(a.n * b.d, a.d * b.n)
    ELSE Rat((0 - a.n) * b.d, a.d * (0 - b.n))

RatGT(a, b) == a.n * b.d > b.n * a.d

RECURSIVE RatSum(_)
RatSum(s) == IF s = <<>> THEN Zero ELSE RatAdd(s[1], RatSum(Tail(s)))

\* Average dividing by one more than the number of values
Average_plus1(vals) ==
    IF vals # <<>> THEN RatDiv(RatSum(vals), Rat(Len(vals) + 1, 1)) ELSE Zero

\* sum(vals) / len(vals) if vals else 0.0
Average(vals) ==
    IF vals # <<>> THEN RatDiv(RatSum(vals), Rat(Len(vals), 1)) ELSE Zero

\* ---------------------------------------------- float() and int() of a token
\* Tokens float() accepts, with the value it returns.
FloatVal ==
    ("0" :> Rat(0, 1)) @@ ("1" :> Rat(1, 1)) @@ ("01" :> Rat(1, 1)) @@
    ("2" :> Rat(2, 1)) @@ ("3" :> Rat(3, 1)) @@ ("5" :> Rat(5, 1)) @@
    ("60" :> Rat(60, 1)) @@ ("80" :> Rat(80, 1)) @@
    ("100" :> Rat(100, 1)) @@ ("200" :> Rat(200, 1)) @@
    ("1000" :> Rat(1000, 1)) @@ ("50000" :> Rat(50000, 1)) @@
    ("100000000" :> Rat(100000000, 1)) @@ ("1e9" :> Rat(1000000000, 1)) @@
    ("0.100" :> Rat(1, 10)) @@ ("0.150" :> Rat(3, 20)) @@
    ("0.2" :> Rat(1, 5)) @@ ("0.5" :> Rat(1, 2)) @@ ("1.5" :> Rat(3, 2)) @@
    ("3.5" :> Rat(7, 2)) @@ ("50.0" :> Rat(50, 1)) @@ ("7.0" :> Rat(7, 1)) @@
    ("-545" :> Rat(0 - 545, 1))

\* Tokens int() accepts, with the value it returns.
IntVal ==
    ("0" :> 0) @@ ("1" :> 1) @@ ("01" :> 1) @@ ("2" :> 2) @@ ("3" :> 3) @@
    ("5" :> 5) @@ ("60" :> 60) @@ ("80" :> 80) @@ ("100" :> 100) @@
    ("200" :> 200) @@ ("1000" :> 1000) @@ ("50000" :> 50000) @@
    ("100000000" :> 100000000) @@ ("-545" :> 0 - 545)

Whitespace == {" ", "\n"}

\* str.strip(): leading and trailing whitespace tokens are dropped
RECURSIVE LStrip(_)
LStrip(s) ==
    IF s # <<>> /\ s[1] \in Whitespace THEN LStrip(Tail(s)) ELSE s

RECURSIVE RStrip(_)
RStrip(s) ==
    IF s # <<>> /\ s[Len(s)] \in Whitespace
    THEN RStrip(SubSeq(s, 1, Len(s) - 1)) ELSE s

Strip(s) == RStrip(LStrip(s))

\* str.split(sep): the pieces between the separator tokens (always >= 1 piece)
RECURSIVE Split(_, _)
Split(s, sep) ==
    IF \A i \in 1..Len(s) : s[i] # sep THEN <<s>>
    ELSE LET k == CHOOSE i \in 1..Len(s) :
                      s[i] = sep /\ \A j \in 1..(i - 1) : s[j] # sep
         IN  <<SubSeq(s, 1, k - 1)>> \o Split(SubSeq(s, k + 1, Len(s)), sep)

\* float(str) raises ValueError unless the stripped text is one number
IsFloat(s) == Len(Strip(s)) = 1 /\ Strip(s)[1] \in DOMAIN FloatVal
ToFloat(s) == FloatVal[Strip(s)[1]]
IsInt(s) == Len(Strip(s)) = 1 /\ Strip(s)[1] \in DOMAIN IntVal
ToInt(s) == IntVal[Strip(s)[1]]

\* ---------------------------------------------------- time-log lines
StartsWithDiff(line) == Len(line) >= 2 /\ line[1] = "diff" /\ line[2] = ":"

\* parts[k].split(':')[1].strip(); HasField is "no IndexError"
HasField(line, k) ==
    /\ Len(Split(line, ",")) >= k
    /\ Len(Split(Split(line, ",")[k], ":")) >= 2
Field(line, k) == Strip(Split(Split(line, ",")[k], ":")[2])

\* NsOfLine without the "if total_val > THRESHOLD: continue" test
NsOfLine_nocut(raw) ==
    LET line == Strip(raw) IN
    IF ~StartsWithDiff(line) THEN <<>>
    ELSE IF ~HasField(line, 2) THEN <<>>
    ELSE IF ~IsFloat(Field(line, 2)) THEN <<>>
    ELSE <<RatDiv(RatDiv(ToFloat(Field(line, 2)), Rat(2, 1)), Rat(NS_SCALE, 1))>>

\* the values one line adds to ns_values (none or one)
NsOfLine(raw) ==
    LET line == Strip(raw) IN
    IF ~StartsWithDiff(line) THEN <<>>
    ELSE IF ~HasField(line, 2) THEN <<>>                \* IndexError
    ELSE IF ~IsFloat(Field(line, 2)) THEN <<>>          \* ValueError
    ELSE LET total_val == ToFloat(Field(line, 2)) IN
         IF RatGT(total_val, Rat(THRESHOLD, 1)) THEN <<>>
         ELSE <<RatDiv(RatDiv(total_val, Rat(2, 1)), Rat(NS_SCALE, 1))>>

\* PercOfLine recording 0.0 for a line whose diff is 0
PercOfLine_zero(raw) ==
    LET line == Strip(raw) IN
    IF ~StartsWithDiff(line) THEN <<>>
    ELSE IF ~HasField(line, 1) \/ ~HasField(line, 2) THEN <<>>
    ELSE IF ~IsFloat(Field(line, 1)) \/ ~IsFloat(Field(line, 2)) THEN <<>>
    ELSE LET diff_val == ToFloat(Field(line, 1))
             total_val == ToFloat(Field(line, 2))
         IN  IF RatGT(total_val, Rat(THRESHOLD, 1)) THEN <<>>
             ELSE IF diff_val # Zero THEN <<RatDiv(total_val, diff_val)>>
             ELSE <<Zero>>

\* the values one line adds to perc_values (none or one)
PercOfLine(raw) ==
    LET line == Strip(raw) IN
    IF ~StartsWithDiff(line) THEN <<>>
    ELSE IF ~HasField(line, 1) \/ ~HasField(line, 2) THEN <<>>   \* IndexError
    ELSE IF ~IsFloat(Field(line, 1)) \/ ~IsFloat(Field(line, 2))
         THEN <<>>                                               \* ValueError
    ELSE LET diff_val == ToFloat(Field(line, 1))
             total_val == ToFloat(Field(line, 2))
         IN  IF RatGT(total_val, Rat(THRESHOLD, 1)) THEN <<>>
             ELSE IF diff_val # Zero THEN <<RatDiv(total_val, diff_val)>>
             ELSE <<>>

\* parse_ns_per_call_time_log leaving the file at the first line that raises (break)
RECURSIVE parse_ns_per_call_time_log_break(_)
parse_ns_per_call_time_log_break(lines) ==
    IF lines = <<>> THEN <<>>
    ELSE IF StartsWithDiff(Strip(lines[1]))
              /\ (~HasField(Strip(lines[1]), 2) \/ ~IsFloat(Field(Strip(lines[1]), 2)))
         THEN <<>>
    ELSE NsOfLine(lines[1]) \o parse_ns_per_call_time_log_break(Tail(lines))

RECURSIVE parse_ns_per_call_time_log(_)
parse_ns_per_call_time_log(lines) ==
    IF lines = <<>> THEN <<>>
    ELSE NsOfLine(lines[1]) \o parse_ns_per_call_time_log(Tail(lines))

\* parse_percentage_time_log without the "if total_val > THRESHOLD: continue" test
RECURSIVE parse_percentage_time_log_nocut(_)
parse_percentage_time_log_nocut(lines) ==
    IF lines = <<>> THEN <<>>
    ELSE LET line == Strip(lines[1])
             parses == /\ StartsWithDiff(line)
                       /\ HasField(line, 1) /\ HasField(line, 2)
                       /\ IsFloat(Field(line, 1)) /\ IsFloat(Field(line, 2))
         IN  (IF parses /\ ToFloat(Field(line, 1)) # Zero
              THEN <<RatDiv(ToFloat(Field(line, 2)), ToFloat(Field(line, 1)))>>
              ELSE <<>>)
             \o parse_percentage_time_log_nocut(Tail(lines))

RECURSIVE parse_percentage_time_log(_)
parse_percentage_time_log(lines) ==
    IF lines = <<>> THEN <<>>
    ELSE PercOfLine(lines[1]) \o parse_percentage_time_log(Tail(lines))

\* ---------------------------------------------------- summary tables
\* str.split(): the runs of non-whitespace tokens
RECURSIVE SplitWS(_)
SplitWS(s) ==
    LET t == LStrip(s) IN
    IF t = <<>> THEN <<>>
    ELSE IF \A i \in 1..Len(t) : t[i] \notin Whitespace THEN <<t>>
    ELSE LET k == CHOOSE i \in 1..Len(t) :
                      t[i] \in Whitespace /\ \A j \in 1..(i - 1) : t[j] \notin Whitespace
         IN  <<SubSeq(t, 1, k - 1)>> \o SplitWS(SubSeq(t, k + 1, Len(t)))

EmptyDict == <<>>

DictPut(d, k, v) == [x \in (DOMAIN d) \cup {k} |-> IF x = k THEN v ELSE d[x]]

\* "if not line or line.startswith('#'): continue" and the header test
IsSkippedLine(line) ==
    \/ line = <<>>
    \/ line[1] = "#"
    \/ SplitWS(line)[1] = <<"SMP">>

\* the try block of parse_summary_file runs to its end
MergeRowValid(parts) ==
    /\ Len(parts) >= MIN_FIELDS
    /\ IsInt(parts[1])
    /\ \A i \in 2..8 : IsFloat(parts[i])

\* (real_boot_time, times_called, predicted_ns_per_call, predict_sec,
\*  scale_factor, total_clocksource_ns, percentage)
MergeRowTuple(parts) ==
    [real_boot_time |-> ToFloat(parts[2]),
     times_called |-> ToFloat(parts[3]),
     predicted_ns_per_call |-> ToFloat(parts[4]),
     predict_sec |-> ToFloat(parts[5]),
     scale_factor |-> ToFloat(parts[6]),
     total_clocksource_ns |-> ToFloat(parts[7]),
     percentage |-> ToFloat(parts[8])]

\* MergeRowStep keeping the first row of a key
MergeRowStep_first(data, raw) ==
    LET line == Strip(raw) IN
    IF IsSkippedLine(line) THEN data
    ELSE LET parts == SplitWS(line) IN
         IF MergeRowValid(parts) /\ ToInt(parts[1]) \notin DOMAIN data
         THEN DictPut(data, ToInt(parts[1]), MergeRowTuple(parts))
         ELSE data

\* one iteration of "for line in f" of parse_summary_file
MergeRowStep(data, raw) ==
    LET line == Strip(raw) IN
    IF IsSkippedLine(line) THEN data
    ELSE LET parts == SplitWS(line) IN
         IF MergeRowValid(parts)
         THEN DictPut(data, ToInt(parts[1]), MergeRowTuple(parts))
         ELSE data

\* SummaryFrom leaving the file at the first line that loads no row (break)
RECURSIVE SummaryFrom_abort(_, _)
SummaryFrom_abort(lines, data) ==
    IF lines = <<>> THEN data
    ELSE IF MergeRowStep(data, lines[1]) = data
              /\ ~(~IsSkippedLine(Strip(lines[1])) /\ MergeRowValid(SplitWS(Strip(lines[1]))))
         THEN data
    ELSE SummaryFrom_abort(Tail(lines), MergeRowStep(data, lines[1]))

RECURSIVE SummaryFrom(_, _)
SummaryFrom(lines, data) ==
    IF lines = <<>> THEN data
    ELSE SummaryFrom(Tail(lines), MergeRowStep(data, lines[1]))

parse_summary_file(lines) == SummaryFrom(lines, EmptyDict)

\* the try block of parse_results_summary runs to its end
ScaledRowValid(parts) ==
    /\ Len(parts) >= MIN_FIELDS
    /\ IsInt(parts[1])
    /\ IsFloat(parts[4])

\* one iteration of "for line in f" of parse_results_summary
ScaledRowStep(smp_info, raw) ==
    LET line == Strip(raw) IN
    IF IsSkippedLine(line) THEN smp_info
    ELSE LET parts == SplitWS(line) IN
         IF ScaledRowValid(parts)
         THEN DictPut(smp_info, ToInt(parts[1]), ToFloat(parts[4]))
         ELSE smp_info

RECURSIVE ResultsFrom(_, _)
ResultsFrom(lines, smp_info) ==
    IF lines = <<>> THEN smp_info
    ELSE ResultsFrom(Tail(lines), ScaledRowStep(smp_info, lines[1]))

parse_results_summary(lines) == ResultsFrom(lines, EmptyDict)

\* ------------------------------------------------ boot-log extraction
ESC == "ESC"

\* tokens made of the characters [0-9] only
DigitTokens ==
    {"0", "1", "01", "2", "3", "5", "60", "80", "100", "200", "1000",
     "50000", "100000000"}

\* tokens made of the characters [0-9.] only, with at least one '.'
DotTokens == {"0.100", "0.150", "0.2", "0.5", "1.5", "3.5", "50.0", "7.0",
              "1.2.3", "."}

\* [0-9;]* of the escape pattern
AnsiParam == DigitTokens \cup {";"}

At(s, i) == IF i \in 1..Len(s) THEN s[i] ELSE "<end>"

\* first index >= i whose token is not in the class (Len(s) + 1 if none)
RECURSIVE SkipClass(_, _, _)
SkipClass(s, i, class) ==
    IF i <= Len(s) /\ s[i] \in class THEN SkipClass(s, i + 1, class) ELSE i

\* index of the 'm' that ends an escape sequence starting at i, 0 if none
AnsiEnd(s, i) ==
    IF s[i] = ESC /\ At(s, i + 1) = "["
    THEN LET j == SkipClass(s, i + 2, AnsiParam) IN
         IF At(s, j) = "m" THEN j ELSE 0
    ELSE 0

\* RemoveFrom removing the first match only (sub with count=1)
RECURSIVE RemoveFrom_first(_, _)
RemoveFrom_first(s, i) ==
    IF i > Len(s) THEN <<>>
    ELSE IF AnsiEnd(s, i) > 0 THEN SubSeq(s, AnsiEnd(s, i) + 1, Len(s))
    ELSE <<s[i]>> \o RemoveFrom_first(s, i + 1)

\* ansi_escape.sub('', s): one left-to-right pass over non-overlapping matches
RECURSIVE RemoveFrom(_, _)
RemoveFrom(s, i) ==
    IF i > Len(s) THEN <<>>
    ELSE IF AnsiEnd(s, i) > 0 THEN RemoveFrom(s, AnsiEnd(s, i) + 1)
    ELSE <<s[i]>> \o RemoveFrom(s, i + 1)

remove_ansi_codes(s) == RemoveFrom(s, 1)

\* re.IGNORECASE on the literals of the patterns
Fold(tok) ==
    CASE tok \in {"Boot time:", "BOOT TIME:", "boot time:"} -> "boot time:"
      [] tok \in {"seconds,", "Seconds,"} -> "seconds,"
      [] tok \in {"called", "CALLED"} -> "called"
      [] tok \in {"times", "Times"} -> "times"
      [] tok \in {"offset:", "Offset:"} -> "offset:"
      [] OTHER -> tok

\* boot_re matched with its first character at token i: the positions of
\* the two groups, or <<>> when the pattern does not match there
BootMatchAt(s, i) ==
    LET g1 == SkipClass(s, i + 1, Whitespace)          \* \s*
        sec == SkipClass(s, g1 + 1, Whitespace)
        cal == SkipClass(s, sec + 1, Whitespace)
        g2 == SkipClass(s, cal + 1, Whitespace)
        tim == SkipClass(s, g2 + 1, Whitespace)
    IN  IF /\ Fold(At(s, i)) = "boot time:"
           /\ At(s, g1) \in DigitTokens \cup DotTokens  \* ([0-9.]+)
           /\ At(s, g1 + 1) \in Whitespace              \* \s+
           /\ Fold(At(s, sec)) = "seconds,"
           /\ At(s, sec + 1) \in Whitespace
           /\ Fold(At(s, cal)) = "called"
           /\ At(s, cal + 1) \in Whitespace
           /\ At(s, g2) \in DigitTokens                 \* ([0-9]+)
           /\ At(s, g2 + 1) \in Whitespace
           /\ Fold(At(s, tim)) = "times"
        THEN <<g1, g2>>
        ELSE <<>>

\* boot_re.search(content): the leftmost match, <<>> for None
BootSearch(s) ==
    IF \E i \in 1..Len(s) : BootMatchAt(s, i) # <<>>
    THEN LET i == CHOOSE k \in 1..Len(s) :
                      /\ BootMatchAt(s, k) # <<>>
                      /\ \A j \in 1..(k - 1) : BootMatchAt(s, j) = <<>>
         IN  <<s[BootMatchAt(s, i)[1]], s[BootMatchAt(s, i)[2]]>>
    ELSE <<>>

\* the longest prefix of a token that matches -?[0-9]+ ("" if none)
IntPrefix(tok) ==
    CASE tok \in DigitTokens \cup {"-545"} -> tok
      [] tok \in {"0.100", "0.150", "0.2", "0.5"} -> "0"
      [] tok \in {"1.5", "1.2.3", "1e9"} -> "1"
      [] tok = "3.5" -> "3"
      [] tok = "50.0" -> "50"
      [] tok = "7.0" -> "7"
      [] OTHER -> ""

OffsetMatchAt(s, i) ==
    LET g == SkipClass(s, i + 1, Whitespace) IN
    IF Fold(At(s, i)) = "offset:" /\ IntPrefix(At(s, g)) # ""
    THEN <<IntPrefix(At(s, g))>>
    ELSE <<>>

\* offset_re.search(content): the leftmost match, <<>> for None
OffsetSearch(s) ==
    IF \E i \in 1..Len(s) : OffsetMatchAt(s, i) # <<>>
    THEN LET i == CHOOSE k \in 1..Len(s) :
                      /\ OffsetMatchAt(s, k) # <<>>
                      /\ \A j \in 1..(k - 1) : OffsetMatchAt(s, j) = <<>>
         IN  OffsetMatchAt(s, i)
    ELSE <<>>

BootDefault == [boot |-> Zero, called |-> 0, offset |-> 0]

\* float(boot_match.group(1)) raises ValueError (nothing catches it)
BootRaises(raw) ==
    LET content == remove_ansi_codes(raw) IN
    BootSearch(content) # <<>> /\ ~IsFloat(<<BootSearch(content)[1]>>)

\* ExtractCell searching for the offset only after a boot line was found
ExtractCell_dep(raw) ==
    LET content == remove_ansi_codes(raw)
        b == BootSearch(content)
        o == OffsetSearch(content)
    IN  [boot |-> IF b # <<>> THEN ToFloat(<<b[1]>>) ELSE Zero,
         called |-> IF b # <<>> THEN ToInt(<<b[2]>>) ELSE 0,
         offset |-> IF b # <<>> /\ o # <<>> THEN ToInt(o) ELSE 0]

\* boot_time, times_called and offset_val of one log whose float() succeeds
ExtractCell(raw) ==
    LET content == remove_ansi_codes(raw)
        b == BootSearch(content)
        o == OffsetSearch(content)
    IN  [boot |-> IF b # <<>> THEN ToFloat(<<b[1]>>) ELSE Zero,
         called |-> IF b # <<>> THEN ToInt(<<b[2]>>) ELSE 0,
         offset |-> IF o # <<>> THEN ToInt(o) ELSE 0]

\* ------------------------------------------------------ input catalogs
SeqsUpTo(S, n) == UNION {[1..k -> S] : k \in 0..n}

RemoveAt(s, i) == SubSeq(s, 1, i - 1) \o SubSeq(s, i + 1, Len(s))

EventLine(d, t) == <<"diff", ":", " ", d, ",", " ", "total", ":", " ", t>>

L_ok == EventLine("100", "60")
L_over == EventLine("100", "1e9")
L_edge == EventLine("100", "100000000")
L_zero == EventLine("0", "60")
L_zero_over == EventLine("0", "1e9")
L_baddiff == EventLine("x", "60")
L_badtotal == EventLine("100", "x")
L_short == <<"diff", ":", " ", "100">>
L_nocolon == <<"diff", ":", " ", "100", ",", " ", "total", " ", "60">>
L_other == <<"total", ":", " ", "60">>
L_padded == <<" ">> \o EventLine("200", "80") \o <<" ", "\n">>

LineCatalog ==
    {L_ok, L_over, L_edge, L_zero, L_zero_over, L_baddiff, L_badtotal,
     L_short, L_nocolon, L_other, L_padded}

RECURSIVE JoinWS(_)
JoinWS(fields) ==
    IF Len(fields) <= 1 THEN fields
    ELSE <<fields[1], " ">> \o JoinWS(Tail(fields))

R_1a == JoinWS(<<"1", "0.100", "1000", "50.0", "0.150", "1.5", "50000", "0.2", "0", "0">>)
R_1b == <<" ">> \o JoinWS(<<"01", "0.2", "1000", "7.0", "0.5", "1.5", "50000", "0.2", "0", "0">>)
R_2 == JoinWS(<<"2", "0.5", "200", "3.5", "0.5", "2", "1000", "0.2", "0", "0">>)
R_3 == JoinWS(<<"3", "0.5", "200", "0.5", "1.5", "2", "1000", "0.2", "0", "0", "0">>)
R_short == JoinWS(<<"1", "0.5", "1000">>)
R_badfield == JoinWS(<<"1", "x", "1000", "1.5", "0.150", "1.5", "50000", "0.2", "0", "0">>)
R_badkey == JoinWS(<<"1.5", "0.5", "1000", "1.5", "0.150", "1.5", "50000", "0.2", "0", "0">>)
R_header == JoinWS(<<"SMP", "real_boot_time", "times_called", "ns_per_call">>)
R_comment == <<"#", " ">> \o R_2
R_blank == <<" ", "\n">>

RowCatalog ==
    {R_1a, R_1b, R_2, R_short, R_badfield, R_badkey, R_header, R_comment,
     R_blank}

AnsiAlphabet == {ESC, "[", "1", ";", "m", "a"}

\* ------------------------------------------------------------- state
VARIABLES
    prog,            \* which script or function this behaviour runs
    pc,              \* position in it
    env, smp,        \* loop counters of the scripts
    run,             \* 1 for the first execution of the aggregator, 2 for the second
    summaryFiles,    \* results_summary-<env>.txt: ABSENT or its lines
    timeLogs,        \* time_log-<env>/time_log_<smp>.txt: ABSENT or its lines
    bootLogs,        \* logs-<env>/emulator_SMP_<smp>.log: ABSENT or its text
    summary,         \* draw_scaled_merge.py: summary of the current environment
    mat,             \* draw_scaled_merge.py: the ten dictionaries env -> list
    prev,            \* the matrices the first execution ended with
    smp_data, avg_ns_list, avg_perc_list,       \* draw_scaled.py main()
    boot_data, called_data, offset_data,        \* draw_increase_merge.py
    data,                                       \* draw_increase.py
    log_lines, ns_values, perc_values,          \* one time log and its two passes
    table_lines, merge_table, scaled_table,     \* one summary table and its two loaders
    text, once, twice                           \* remove_ansi_codes applied once, twice

scriptVars == <<env, smp, run, summaryFiles, timeLogs, bootLogs, summary, mat,
                prev, smp_data, avg_ns_list, avg_perc_list, boot_data,
                called_data, offset_data, data>>
logVars == <<log_lines, ns_values, perc_values>>
tableVars == <<table_lines, merge_table, scaled_table>>
ansiVars == <<text, once, twice>>
vars == <<prog, pc, scriptVars, logVars, tableVars, ansiVars>>

MatrixNames ==
    {"diff_boot_time", "predict_boot_time", "predict_ns_call",
     "real_boot_time", "scale_factor", "times_called_cs", "total_clock_ns",
     "avg_percentage", "avg_real_ns_call", "diff_ns_call"}

SummaryMatrixNames ==
    {"diff_boot_time", "predict_boot_time", "predict_ns_call",
     "real_boot_time", "scale_factor", "times_called_cs", "total_clock_ns"}

\* the ten dictionaries right after "diff_boot_time = {}" ... "diff_ns_call = {}"
EmptyMatrices == [m \in MatrixNames |-> EmptyDict]

IdleScript ==
    /\ env = 0 /\ smp = 0 /\ run = 0
    /\ summaryFiles = <<>> /\ timeLogs = <<>> /\ bootLogs = <<>>
    /\ summary = EmptyDict /\ mat = EmptyMatrices /\ prev = EmptyMatrices
    /\ smp_data = EmptyDict /\ avg_ns_list = <<>> /\ avg_perc_list = <<>>
    /\ boot_data = <<>> /\ called_data = <<>> /\ offset_data = <<>>
    /\ data = EmptyDict
IdleLog == log_lines = <<>> /\ ns_values = <<>> /\ perc_values = <<>>
IdleTable == table_lines = <<>> /\ merge_table = EmptyDict /\ scaled_table = EmptyDict
IdleAnsi == text = <<>> /\ once = <<>> /\ twice = <<>>

\* ------------------------------------------- the two passes over a time log
InitLog ==
    /\ prog = "time_log" /\ pc = "input"
    /\ log_lines \in SeqsUpTo(LineCatalog, MaxLines)
    /\ ns_values = <<>> /\ perc_values = <<>>
    /\ IdleScript /\ IdleTable /\ IdleAnsi

ParseTimeLog ==
    /\ prog = "time_log" /\ pc = "input"
    /\ ns_values' = parse_ns_per_call_time_log(log_lines)
    /\ perc_values' = parse_percentage_time_log(log_lines)
    /\ pc' = "parsed"
    /\ UNCHANGED <<prog, log_lines, scriptVars, tableVars, ansiVars>>

NextLog == ParseTimeLog
SpecLog == InitLog /\ [][NextLog]_vars

\* ------------------------------------------- the two summary-table loaders
InitTable ==
    /\ prog = "summary_table" /\ pc = "input"
    /\ table_lines \in SeqsUpTo(RowCatalog, MaxRows)
    /\ merge_table = EmptyDict /\ scaled_table = EmptyDict
    /\ IdleScript /\ IdleLog /\ IdleAnsi

LoadTable ==
    /\ prog = "summary_table" /\ pc = "input"
    /\ merge_table' = parse_summary_file(table_lines)
    /\ scaled_table' = parse_results_summary(table_lines)
    /\ pc' = "loaded"
    /\ UNCHANGED <<prog, table_lines, scriptVars, logVars, ansiVars>>

NextTable == LoadTable
SpecTable == InitTable /\ [][NextTable]_vars

\* ------------------------------------------------------ remove_ansi_codes
InitAnsi ==
    /\ prog = "ansi" /\ pc = "input"
    /\ text \in SeqsUpTo(AnsiAlphabet, MaxTextLen)
    /\ once = <<>> /\ twice = <<>>
    /\ IdleScript /\ IdleLog /\ IdleTable

StripOnce ==
    /\ prog = "ansi" /\ pc = "input"
    /\ once' = remove_ansi_codes(text)
    /\ pc' = "once"
    /\ UNCHANGED <<prog, text, twice, scriptVars, logVars, tableVars>>

StripTwice ==
    /\ prog = "ansi" /\ pc = "once"
    /\ twice' = remove_ansi_codes(once)
    /\ pc' = "twice"
    /\ UNCHANGED <<prog, text, once, scriptVars, logVars, tableVars>>

NextAnsi == StripOnce \/ StripTwice
SpecAnsi == InitAnsi /\ [][NextAnsi]_vars

\* ------------------------------------------------------ input files
TimeLogCatalog ==
    <<ABSENT,
      File(<<L_ok, L_over>>),
      File(<<>>),
      File(<<L_zero, L_baddiff>>),
      File(<<L_edge, L_padded, L_short>>),
      File(<<L_over, L_badtotal, L_other>>)>>

SummaryCatalog ==
    <<File(<<R_header, R_1a, R_2, R_3>>),
      ABSENT,
      File(<<R_2>>),
      File(<<R_comment, R_1a, R_1b, R_short>>),
      File(<<R_blank>>),
      File(<<R_3, R_badfield, R_2>>)>>

BootLine(t, n) ==
    <<"Boot time:", " ", t, " ", "seconds,", " ", "called", " ", n, " ",
      "times", " ", "semu_timer_clocksource", "\n">>

B_good ==
    <<ESC, "[", "1", ";", "1", "m", "[SEMU LOG]:", " ">> \o BootLine("3.5", "100")
        \o <<ESC, "[", "m", "real_ticks:", " ", "5", ",", " ", "offset:", " ", "-545", "\n">>
B_upper ==
    <<"BOOT TIME:", "7.0", "\n", "Seconds,", " ", "CALLED", " ", "01", " ",
      "Times", "\n">>
B_offset_only == <<"Offset:", "3.5", "\n", "offset:", " ", "60", "\n">>
B_second ==
    <<"Boot time:", " ", "x", "\n">> \o BootLine("0.5", "5") \o BootLine("3.5", "60")
        \o <<"offset:", " ", "x", " ", "offset:", "2">>
B_badfloat == BootLine("1.2.3", "5") \o <<"offset:", " ", "5", "\n">>
B_dot == <<"offset:", " ", "5", "\n">> \o BootLine(".", "5") \o BootLine("3.5", "100")
B_noise == <<"[SEMU LOG]:", " ", ESC, "[", "x", "\n">>

BootLogCatalog ==
    <<ABSENT, File(B_good), File(B_offset_only), File(B_upper),
      File(B_badfloat), File(B_second), File(<<>>), File(B_dot), File(B_noise)>>

\* one file per cell, taken from the catalog with stride a and shift k
FilesPerCell(cat, a, k) ==
    [e \in 1..NUM_ENV |->
        [s \in 1..NUM_SMP |-> cat[((e * a + s + k) % Len(cat)) + 1]]]

\* one file per environment, taken from the catalog with stride b and shift j
FilesPerEnv(cat, b, j) ==
    [e \in 1..NUM_ENV |-> cat[((e * b + j) % Len(cat)) + 1]]

Last(s) == s[Len(s)]

\* ------------------------------------------------- draw_scaled_merge.py
\* NewLists keeping a list that already exists (setdefault)
NewLists_keep(m, e) ==
    [name \in MatrixNames |->
        DictPut(m[name], e, IF e \in DOMAIN m[name] THEN m[name][e] ELSE <<>>)]

\* diff_boot_time[env] = [] ... diff_ns_call[env] = []
NewLists(m, e) == [name \in MatrixNames |-> DictPut(m[name], e, <<>>)]

\* the seven appends of "if smp in summary: ... else: ..."
SummaryValues(sm, s) ==
    IF s \in DOMAIN sm
    THEN [diff_boot_time |-> RatSub(sm[s].predict_sec, sm[s].real_boot_time),
          predict_boot_time |-> sm[s].predict_sec,
          predict_ns_call |-> sm[s].predicted_ns_per_call,
          real_boot_time |-> sm[s].real_boot_time,
          scale_factor |-> sm[s].scale_factor,
          times_called_cs |-> sm[s].times_called,
          total_clock_ns |-> sm[s].total_clocksource_ns]
    ELSE [name \in SummaryMatrixNames |-> Zero]

\* perc_vals and ns_vals of "if os.path.exists(time_log_path): ... else: ..."
PercVals(file) == IF file.exists THEN parse_percentage_time_log(file.content) ELSE <<>>
NsVals(file) == IF file.exists THEN parse_ns_per_call_time_log(file.content) ELSE <<>>

\* PredVal reading the first element of the list instead of the last
PredVal_first(list) == IF list # <<>> THEN list[1] ELSE Zero

\* pred_val = predict_ns_call[env][-1] if predict_ns_call[env] else 0.0
PredVal(list) == IF list # <<>> THEN Last(list) ELSE Zero

\* AppendCell leaving the cell after the summary appends when the log is missing
AppendCell_skip(m, e, sm, s, file) ==
    LET sv == SummaryValues(sm, s)
        m1 == [name \in MatrixNames |->
                 IF name \in SummaryMatrixNames
                 THEN [m[name] EXCEPT ![e] = Append(@, sv[name])]
                 ELSE m[name]]
        avg_perc == Average(PercVals(file))
        avg_ns == Average(NsVals(file))
        pred_val == PredVal(m1.predict_ns_call[e])
    IN  IF ~file.exists THEN m1
        ELSE [m1 EXCEPT !.avg_percentage[e] = Append(@, avg_perc),
                        !.avg_real_ns_call[e] = Append(@, avg_ns),
                        !.diff_ns_call[e] = Append(@, RatSub(avg_ns, pred_val))]

\* the body of "for smp in range(1, NUM_SMP + 1)" applied to the matrices
AppendCell(m, e, sm, s, file) ==
    LET sv == SummaryValues(sm, s)
        m1 == [name \in MatrixNames |->
                 IF name \in SummaryMatrixNames
                 THEN [m[name] EXCEPT ![e] = Append(@, sv[name])]
                 ELSE m[name]]
        avg_perc == Average(PercVals(file))
        avg_ns == Average(NsVals(file))
        pred_val == PredVal(m1.predict_ns_call[e])
    IN  [m1 EXCEPT !.avg_percentage[e] = Append(@, avg_perc),
                   !.avg_real_ns_call[e] = Append(@, avg_ns),
                   !.diff_ns_call[e] = Append(@, RatSub(avg_ns, pred_val))]

\* NextCell with the inner loop one iteration short (range(1, NUM_SMP))
NextCell_short(again) ==
    IF smp < NUM_SMP - 1 THEN /\ smp' = smp + 1 /\ pc' = "cell" /\ UNCHANGED env
    ELSE IF env < NUM_ENV THEN /\ env' = env + 1 /\ smp' = 1 /\ pc' = again
    ELSE /\ pc' = "done" /\ UNCHANGED <<env, smp>>

\* end of one iteration of the inner loop: next smp, next env, or the end
NextCell(again) ==
    IF smp < NUM_SMP THEN /\ smp' = smp + 1 /\ pc' = "cell" /\ UNCHANGED env
    ELSE IF env < NUM_ENV THEN /\ env' = env + 1 /\ smp' = 1 /\ pc' = again
    ELSE /\ pc' = "done" /\ UNCHANGED <<env, smp>>

InitMerge ==
    /\ prog = "scaled_merge" /\ pc = "env"
    /\ env = 1 /\ smp = 1 /\ run = 1
    /\ \E b \in 0..1, j \in 0..(Len(SummaryCatalog) - 1) :
           summaryFiles = FilesPerEnv(SummaryCatalog, b, j)
    /\ \E a \in 0..2, k \in 0..(Len(TimeLogCatalog) - 1) :
           timeLogs = FilesPerCell(TimeLogCatalog, a, k)
    /\ bootLogs = <<>>
    /\ summary = EmptyDict /\ mat = EmptyMatrices /\ prev = EmptyMatrices
    /\ smp_data = EmptyDict /\ avg_ns_list = <<>> /\ avg_perc_list = <<>>
    /\ boot_data = <<>> /\ called_data = <<>> /\ offset_data = <<>>
    /\ data = EmptyDict
    /\ IdleLog /\ IdleTable /\ IdleAnsi

\* "summary = parse_summary_file(env)" and the ten list initialisations;
\* open() of an absent table raises FileNotFoundError, which nothing catches
MergeEnvStart ==
    /\ prog = "scaled_merge" /\ pc = "env"
    /\ IF ~summaryFiles[env].exists
       THEN /\ pc' = "crashed"
            /\ UNCHANGED <<summary, mat, smp>>
       ELSE /\ summary' = parse_summary_file(summaryFiles[env].content)
            /\ mat' = NewLists(mat, env)
            /\ smp' = 1
            /\ pc' = "cell"
    /\ UNCHANGED <<prog, env, run, summaryFiles, timeLogs, bootLogs, prev,
                   smp_data, avg_ns_list, avg_perc_list, boot_data,
                   called_data, offset_data, data, logVars, tableVars, ansiVars>>

MergeCell ==
    /\ prog = "scaled_merge" /\ pc = "cell"
    /\ mat' = AppendCell(mat, env, summary, smp, timeLogs[env][smp])
    /\ NextCell("env")
    /\ UNCHANGED <<prog, run, summaryFiles, timeLogs, bootLogs, summary, prev,
                   smp_data, avg_ns_list, avg_perc_list, boot_data,
                   called_data, offset_data, data, logVars, tableVars, ansiVars>>

\* A second execution over the same files.  The whole script run again
\* starts from empty dictionaries; the loop entered again starts from the
\* dictionaries the first execution left.
MergeRunAgain ==
    /\ prog = "scaled_merge" /\ pc = "done" /\ run = 1
    /\ prev' = mat
    /\ \/ mat' = EmptyMatrices
       \/ mat' = mat
    /\ run' = 2 /\ env' = 1 /\ smp' = 1 /\ pc' = "env"
    /\ UNCHANGED <<prog, summaryFiles, timeLogs, bootLogs, summary,
                   smp_data, avg_ns_list, avg_perc_list, boot_data,
                   called_data, offset_data, data, logVars, tableVars, ansiVars>>

\* ------------------------------------------------------- draw_scaled.py
InitScaled ==
    /\ prog = "scaled" /\ pc = "env"
    /\ env = 1 /\ smp = 1 /\ run = 1
    /\ \E b \in 0..1, j \in 0..(Len(SummaryCatalog) - 1) :
           summaryFiles = FilesPerEnv(SummaryCatalog, b, j)
    /\ \E a \in 0..2, k \in 0..(Len(TimeLogCatalog) - 1) :
           timeLogs = FilesPerCell(TimeLogCatalog, a, k)
    /\ bootLogs = <<>>
    /\ summary = EmptyDict /\ mat = EmptyMatrices /\ prev = EmptyMatrices
    /\ smp_data = EmptyDict /\ avg_ns_list = <<>> /\ avg_perc_list = <<>>
    /\ boot_data = <<>> /\ called_data = <<>> /\ offset_data = <<>>
    /\ data = EmptyDict
    /\ IdleLog /\ IdleTable /\ IdleAnsi

\* "smp_data = parse_results_summary(summary_file)" and the two empty lists
ScaledEnvStart ==
    /\ prog = "scaled" /\ pc = "env"
    /\ IF ~summaryFiles[env].exists
       THEN /\ pc' = "crashed"
            /\ UNCHANGED <<smp_data, avg_ns_list, avg_perc_list, smp>>
       ELSE /\ smp_data' = parse_results_summary(summaryFiles[env].content)
            /\ avg_ns_list' = <<>>
            /\ avg_perc_list' = <<>>
            /\ smp' = 1
            /\ pc' = "cell"
    /\ UNCHANGED <<prog, env, run, summaryFiles, timeLogs, bootLogs, summary,
                   mat, prev, boot_data, called_data, offset_data, data,
                   logVars, tableVars, ansiVars>>

\* ScaledAvgNs reading the time log although the summary has no row for smp
ScaledAvgNs_read(info, s, file) ==
    IF ~file.exists THEN Zero
    ELSE Average(parse_ns_per_call_time_log(file.content))

\* the value main() appends to avg_ns_list / avg_perc_list for one smp
ScaledAvgNs(info, s, file) ==
    IF s \notin DOMAIN info THEN Zero
    ELSE IF ~file.exists THEN Zero
    ELSE Average(parse_ns_per_call_time_log(file.content))

ScaledAvgPerc(info, s, file) ==
    IF s \notin DOMAIN info THEN Zero
    ELSE IF ~file.exists THEN Zero
    ELSE Average(parse_percentage_time_log(file.content))

ScaledCell ==
    /\ prog = "scaled" /\ pc = "cell"
    /\ avg_ns_list' = Append(avg_ns_list, ScaledAvgNs(smp_data, smp, timeLogs[env][smp]))
    /\ avg_perc_list' = Append(avg_perc_list, ScaledAvgPerc(smp_data, smp, timeLogs[env][smp]))
    /\ NextCell("env")
    /\ UNCHANGED <<prog, run, summaryFiles, timeLogs, bootLogs, summary, mat,
                   prev, smp_data, boot_data, called_data, offset_data, data,
                   logVars, tableVars, ansiVars>>

\* ------------------------------------------------ draw_increase_merge.py
InitIncreaseMerge ==
    /\ prog = "increase_merge" /\ pc = "cell"
    /\ env = 1 /\ smp = 1 /\ run = 1
    /\ \E a \in 0..2, k \in 0..(Len(BootLogCatalog) - 1) :
           bootLogs = FilesPerCell(BootLogCatalog, a, k)
    /\ summaryFiles = <<>> /\ timeLogs = <<>>
    /\ boot_data = [e \in 1..NUM_ENV |-> [i \in 1..NUM_SMP |-> Zero]]
    /\ called_data = [e \in 1..NUM_ENV |-> [i \in 1..NUM_SMP |-> 0]]
    /\ offset_data = [e \in 1..NUM_ENV |-> [i \in 1..NUM_SMP |-> 0]]
    /\ data = EmptyDict
    /\ summary = EmptyDict /\ mat = EmptyMatrices /\ prev = EmptyMatrices
    /\ smp_data = EmptyDict /\ avg_ns_list = <<>> /\ avg_perc_list = <<>>
    /\ IdleLog /\ IdleTable /\ IdleAnsi

\* the body of "for smp in range(1, NUM_SMP+1)" of draw_increase_merge.py
IncreaseMergeCell ==
    /\ prog = "increase_merge" /\ pc = "cell"
    /\ LET logfile == bootLogs[env][smp] IN
       IF ~logfile.exists
       THEN /\ NextCell("cell")
            /\ UNCHANGED <<boot_data, called_data, offset_data>>
       ELSE IF BootRaises(logfile.content)
       THEN /\ pc' = "crashed"
            /\ UNCHANGED <<env, smp, boot_data, called_data, offset_data>>
       ELSE /\ boot_data' = [boot_data EXCEPT ![env][smp] = ExtractCell(logfile.content).boot]
            /\ called_data' = [called_data EXCEPT ![env][smp] = ExtractCell(logfile.content).called]
            /\ offset_data' = [offset_data EXCEPT ![env][smp] = ExtractCell(logfile.content).offset]
            /\ NextCell("cell")
    /\ UNCHANGED <<prog, run, summaryFiles, timeLogs, bootLogs, summary, mat,
                   prev, smp_data, avg_ns_list, avg_perc_list, data,
                   logVars, tableVars, ansiVars>>

\* ------------------------------------------------------ draw_increase.py
InitIncrease ==
    /\ prog = "increase" /\ pc = "cell"
    /\ env = 1 /\ smp = 1 /\ run = 1
    /\ \E a \in 0..2, k \in 0..(Len(BootLogCatalog) - 1) :
           bootLogs = FilesPerCell(BootLogCatalog, a, k)
    /\ summaryFiles = <<>> /\ timeLogs = <<>>
    /\ data = EmptyDict
    /\ boot_data = <<>> /\ called_data = <<>> /\ offset_data = <<>>
    /\ summary = EmptyDict /\ mat = EmptyMatrices /\ prev = EmptyMatrices
    /\ smp_data = EmptyDict /\ avg_ns_list = <<>> /\ avg_perc_list = <<>>
    /\ IdleLog /\ IdleTable /\ IdleAnsi

\* data[smp][env] = v, after "data[smp] = {}" when env is the first one
DataPut(d, s, e, v) ==
    DictPut(d, s, DictPut(IF e = 1 THEN EmptyDict ELSE d[s], e, v))

\* end of one iteration of draw_increase.py's inner loop (env is the inner index)
NextCellSmpOuter ==
    IF env < NUM_ENV THEN /\ env' = env + 1 /\ pc' = "cell" /\ UNCHANGED smp
    ELSE IF smp < NUM_SMP THEN /\ smp' = smp + 1 /\ env' = 1 /\ pc' = "cell"
    ELSE /\ pc' = "done" /\ UNCHANGED <<env, smp>>

\* the body of "for env in range(1, NUM_ENV + 1)" of draw_increase.py
IncreaseCell ==
    /\ prog = "increase" /\ pc = "cell"
    /\ LET logfile == bootLogs[env][smp] IN
       IF ~logfile.exists
       THEN /\ data' = DataPut(data, smp, env, BootDefault)
            /\ NextCellSmpOuter
       ELSE IF BootRaises(logfile.content)
       THEN /\ data' = DataPut(data, smp, env, BootDefault)
            /\ pc' = "crashed"
            /\ UNCHANGED <<env, smp>>
       ELSE /\ data' = DataPut(data, smp, env, ExtractCell(logfile.content))
            /\ NextCellSmpOuter
    /\ UNCHANGED <<prog, run, summaryFiles, timeLogs, bootLogs, summary, mat,
                   prev, smp_data, avg_ns_list, avg_perc_list, boot_data,
                   called_data, offset_data, logVars, tableVars, ansiVars>>

\* ---------------------------------------------------------- the scripts
Init == InitMerge \/ InitScaled \/ InitIncreaseMerge \/ InitIncrease

Next ==
    \/ MergeEnvStart
    \/ MergeCell
    \/ MergeRunAgain
    \/ ScaledEnvStart
    \/ ScaledCell
    \/ IncreaseMergeCell
    \/ IncreaseCell

Spec == Init /\ [][Next]_vars

\* ------------------------------------------------------------ properties
Envs == 1..NUM_ENV
Smps == 1..NUM_SMP

\* the cells of the aggregator that have an entry in the named matrix
HasCell(name, e, s) == e \in DOMAIN mat[name] /\ s \in 1..Len(mat[name][e])

\* the cell has been processed: all ten matrices have its entry
Processed(e, s) == \A name \in MatrixNames : HasCell(name, e, s)

\* C1: dense grid.  When the aggregation loop has finished, each of the ten
\* matrices holds exactly NUM_SMP entries for each environment; and after
\* every processed cell the ten lists of the current environment have the
\* same length, the number of cells processed so far.
C1_DenseGrid ==
    prog = "scaled_merge" =>
        /\ pc = "done" =>
               \A name \in MatrixNames : \A e \in Envs :
                   e \in DOMAIN mat[name] /\ Len(mat[name][e]) = NUM_SMP
        /\ pc = "cell" =>
               \A name \in MatrixNames :
                   env \in DOMAIN mat[name] /\ Len(mat[name][env]) = smp - 1
        /\ \A n1, n2 \in MatrixNames : \A e \in Envs :
               e \in DOMAIN mat[n1] =>
                   e \in DOMAIN mat[n2] /\ Len(mat[n1][e]) = Len(mat[n2][e])

\* the loop finished over a missing log, a malformed log and an absent row
C1_Witness ==
    /\ prog = "scaled_merge" /\ pc = "done" /\ run = 1
    /\ \E e \in Envs, s \in Smps : timeLogs[e][s] = ABSENT
    /\ \E e \in Envs, s \in Smps : timeLogs[e][s] = File(<<L_over, L_badtotal, L_other>>)
    /\ \E e \in Envs, s \in Smps : s \notin DOMAIN parse_summary_file(summaryFiles[e].content)
    /\ \E e \in Envs, s \in Smps : s \in DOMAIN parse_summary_file(summaryFiles[e].content)
    /\ \A name \in MatrixNames : \A e \in Envs : Len(mat[name][e]) = NUM_SMP

\* the summary table of environment e as the aggregator loads it
SummaryOf(e) == parse_summary_file(summaryFiles[e].content)

\* a cell of draw_increase.py that has its entry in data
HasData(s, e) == s \in DOMAIN data /\ e \in DOMAIN data[s]

\* boot/called/offset of every cell of the boot-log scripts whose log is
\* missing are the defaults 0.0, 0 and 0
BootDefaultsWhenMissing ==
    /\ prog = "increase_merge" =>
           \A e \in Envs, s \in Smps :
               ~bootLogs[e][s].exists =>
                   /\ boot_data[e][s] = Zero
                   /\ called_data[e][s] = 0
                   /\ offset_data[e][s] = 0
    /\ prog = "increase" =>
           \A e \in Envs, s \in Smps :
               ~bootLogs[e][s].exists =>
                   /\ HasData(s, e) => data[s][e] = BootDefault
                   /\ pc = "done" => HasData(s, e)

\* C2 as claimed: for a cell whose log file is missing, every output matrix
\* has a value at the cell's position and the value is the default 0.0 or 0,
\* in the boot-log scripts and in all ten matrices of the aggregator.
C2_MissingLogAllDefault ==
    /\ BootDefaultsWhenMissing
    /\ prog = "scaled_merge" =>
           \A e \in Envs, s \in Smps :
               (~timeLogs[e][s].exists /\ \E name \in MatrixNames : HasCell(name, e, s)) =>
                   \A name \in MatrixNames :
                       HasCell(name, e, s) /\ mat[name][e][s] = Zero

\* C2 amended: for a cell whose log file is missing, every output matrix has
\* a value at the cell's position.  In the boot-log scripts boot, called and
\* offset are 0.0, 0 and 0.  In the aggregator avg_percentage and
\* avg_real_ns_call are 0.0, the seven summary matrices hold the values of
\* the cell's summary row (0.0 when the row is absent), and diff_ns_call is
\* 0.0 - predict_ns_call.
C2_MissingLogDefaults ==
    /\ BootDefaultsWhenMissing
    /\ prog = "scaled_merge" =>
           \A e \in Envs, s \in Smps :
               (~timeLogs[e][s].exists /\ \E name \in MatrixNames : HasCell(name, e, s)) =>
                   /\ Processed(e, s)
                   /\ mat.avg_percentage[e][s] = Zero
                   /\ mat.avg_real_ns_call[e][s] = Zero
                   /\ mat.diff_ns_call[e][s] = RatSub(Zero, mat.predict_ns_call[e][s])
                   /\ \A name \in SummaryMatrixNames :
                          mat[name][e][s] = SummaryValues(SummaryOf(e), s)[name]

\* a processed cell with a missing log and a summary row whose prediction is not 0
C2_Witness ==
    /\ prog = "scaled_merge"
    /\ \E e \in Envs, s \in Smps :
           /\ Processed(e, s)
           /\ ~timeLogs[e][s].exists
           /\ s \in DOMAIN SummaryOf(e)
           /\ mat.predict_ns_call[e][s] # Zero
           /\ mat.diff_ns_call[e][s] = RatNeg(mat.predict_ns_call[e][s])

\* ---- one time log (SpecLog)
NsParsable(raw) ==
    LET line == Strip(raw) IN
    StartsWithDiff(line) /\ HasField(line, 2) /\ IsFloat(Field(line, 2))

\* the line parses and its total is strictly greater than 1e8
IsOutlier(raw) ==
    NsParsable(raw) /\ RatGT(ToFloat(Field(Strip(raw), 2)), Rat(THRESHOLD, 1))

PercParsable(raw) ==
    LET line == Strip(raw) IN
    /\ StartsWithDiff(line) /\ HasField(line, 1) /\ HasField(line, 2)
    /\ IsFloat(Field(line, 1)) /\ IsFloat(Field(line, 2))

\* the line parses, is not an outlier and its diff is exactly 0
DiffIsZero(raw) ==
    /\ PercParsable(raw) /\ ~IsOutlier(raw)
    /\ ToFloat(Field(Strip(raw), 1)) = Zero

LineIndexes == 1..Len(log_lines)

\* C3: outlier cutoff.  A line whose parsed total is strictly greater than
\* 1e8 adds no value to ns_values and none to perc_values, and both lists
\* are what they would be without that line; every parsable line whose
\* total is at most 1e8 (1e8 itself included) has its value in ns_values.
C3_OutlierCutoff ==
    (prog = "time_log" /\ pc = "parsed") =>
        /\ \A i \in LineIndexes :
               IsOutlier(log_lines[i]) =>
                   /\ ns_values = parse_ns_per_call_time_log(RemoveAt(log_lines, i))
                   /\ perc_values = parse_percentage_time_log(RemoveAt(log_lines, i))
        /\ Len(ns_values) =
               Cardinality({i \in LineIndexes :
                               NsParsable(log_lines[i]) /\ ~IsOutlier(log_lines[i])})
        /\ Len(perc_values) <=
               Cardinality({i \in LineIndexes : ~IsOutlier(log_lines[i])})

\* a log with an outlier line between a line at exactly 1e8 and an ordinary line
C3_Witness ==
    /\ prog = "time_log" /\ pc = "parsed"
    /\ Len(log_lines) = 3
    /\ log_lines[1] = L_edge /\ IsOutlier(log_lines[2]) /\ log_lines[3] = L_ok
    /\ ns_values = <<Rat(50, 1), Rat(3, 100000)>>
    /\ perc_values = <<Rat(1000000, 1), Rat(3, 5)>>

\* C4: denominator guard.  A line whose parsed diff is exactly 0 adds
\* nothing to perc_values: the list is what it would be without that line,
\* so the lines before and after it are still processed.
C4_ZeroDiffSkipped ==
    (prog = "time_log" /\ pc = "parsed") =>
        /\ \A i \in LineIndexes :
               DiffIsZero(log_lines[i]) =>
                   perc_values = parse_percentage_time_log(RemoveAt(log_lines, i))
        /\ Len(perc_values) =
               Cardinality({i \in LineIndexes :
                               /\ PercParsable(log_lines[i])
                               /\ ~IsOutlier(log_lines[i])
                               /\ ~DiffIsZero(log_lines[i])})

\* a zero-diff line between two lines that both give a percentage
C4_Witness ==
    /\ prog = "time_log" /\ pc = "parsed"
    /\ Len(log_lines) = 3
    /\ log_lines[1] = L_ok /\ DiffIsZero(log_lines[2]) /\ log_lines[3] = L_padded
    /\ perc_values = <<Rat(3, 5), Rat(2, 5)>>
    /\ Len(ns_values) = 3

\* ---- remove_ansi_codes (SpecAnsi)
\* every ESC of the text starts a complete escape sequence
EveryEscComplete(t) == \A i \in 1..Len(t) : t[i] = ESC => AnsiEnd(t, i) > 0

\* C5 as claimed: remove_ansi_codes is idempotent on every text.
C5_Idempotent == (prog = "ansi" /\ pc = "twice") => twice = once

\* C5 amended: remove_ansi_codes is idempotent on every text in which each
\* ESC starts a complete escape sequence.
C5_IdempotentWhenComplete ==
    (prog = "ansi" /\ pc = "twice" /\ EveryEscComplete(text)) => twice = once

\* an escape sequence was removed between two ordinary characters
C5_Witness ==
    /\ prog = "ansi" /\ pc = "twice"
    /\ EveryEscComplete(text)
    /\ text = <<"a", ESC, "[", "1", "m", "a">>
    /\ once = <<"a", "a">>
    /\ twice = once

\* ---- the boot-log scripts
\* C6 as claimed: boot and offset extraction never end in an uncaught error.
C6_ExtractorNeverRaises ==
    prog \in {"increase", "increase_merge"} => pc # "crashed"

\* ---- the summary table of an environment is absent
\* C7 as claimed: an absent summary table does not stop the aggregation.
C7_MissingSummaryRecovered ==
    prog \in {"scaled_merge", "scaled"} => pc # "crashed"

\* C8: end-to-end derivation.  In every processed cell diff_ns_call is
\* avg_real_ns_call - predict_ns_call and predict_ns_call is the prediction
\* of the cell's summary row; a cell whose log holds 'diff: 100, total: 60'
\* and 'diff: 100, total: 1e9' has avg_real_ns_call = 60/2/1e6 and
\* avg_percentage = 60/100.
C8_EndToEnd ==
    prog = "scaled_merge" =>
        \A e \in Envs, s \in Smps :
            Processed(e, s) =>
                /\ mat.diff_ns_call[e][s] =
                       RatSub(mat.avg_real_ns_call[e][s], mat.predict_ns_call[e][s])
                /\ s \in DOMAIN SummaryOf(e) =>
                       mat.predict_ns_call[e][s] = SummaryOf(e)[s].predicted_ns_per_call
                /\ timeLogs[e][s] = File(<<L_ok, L_over>>) =>
                       /\ mat.avg_real_ns_call[e][s] = Rat(3, 100000)
                       /\ mat.avg_percentage[e][s] = Rat(3, 5)

\* the scenario of the spec: a row predicting 50.0 and the two-line log
C8_Witness ==
    /\ prog = "scaled_merge"
    /\ \E e \in Envs, s \in Smps :
           /\ Processed(e, s)
           /\ timeLogs[e][s] = File(<<L_ok, L_over>>)
           /\ s \in DOMAIN SummaryOf(e)
           /\ mat.predict_ns_call[e][s] = Rat(50, 1)
           /\ mat.avg_real_ns_call[e][s] = Rat(3, 100000)
           /\ mat.avg_percentage[e][s] = Rat(3, 5)
           /\ mat.diff_ns_call[e][s] = Rat(3 - 5000000, 100000)

\* C9: determinism.  A second execution over the same files ends with the
\* matrices of the first, cell by cell; and within an execution two cells
\* with the same time log have the same averages.
C9_Deterministic ==
    prog = "scaled_merge" =>
        /\ (run = 2 /\ pc = "done") => mat = prev
        /\ (run = 2 /\ pc = "cell") =>
               \A name \in MatrixNames :
                   /\ Len(mat[name][env]) <= Len(prev[name][env])
                   /\ \A s \in 1..Len(mat[name][env]) :
                          mat[name][env][s] = prev[name][env][s]
        /\ \A e1, e2 \in Envs, s1, s2 \in Smps :
               (Processed(e1, s1) /\ Processed(e2, s2) /\ timeLogs[e1][s1] = timeLogs[e2][s2]) =>
                   /\ mat.avg_percentage[e1][s1] = mat.avg_percentage[e2][s2]
                   /\ mat.avg_real_ns_call[e1][s1] = mat.avg_real_ns_call[e2][s2]

\* the second execution finished with the matrices of the first
C9_Witness ==
    /\ prog = "scaled_merge" /\ run = 2 /\ pc = "done"
    /\ mat = prev
    /\ \E e \in Envs, s \in Smps : mat.avg_percentage[e][s] # Zero
    /\ \E e \in Envs, s \in Smps : mat.predict_ns_call[e][s] # Zero

\* ---- one summary table (SpecTable)
RowParts(i) == SplitWS(Strip(table_lines[i]))

MergeValidRows ==
    {i \in 1..Len(table_lines) :
        ~IsSkippedLine(Strip(table_lines[i])) /\ MergeRowValid(RowParts(i))}

ScaledValidRows ==
    {i \in 1..Len(table_lines) :
        ~IsSkippedLine(Strip(table_lines[i])) /\ ScaledRowValid(RowParts(i))}

RowKey(i) == ToInt(RowParts(i)[1])

\* the last row of the set that has the key of row i
LastOfKey(rows, i) ==
    CHOOSE j \in rows :
        RowKey(j) = RowKey(i) /\ \A k \in rows : RowKey(k) = RowKey(i) => k <= j

\* C10: duplicate SMP keys, last occurrence wins.  For every key of a
\* loaded row the mapping holds exactly the values of the last loaded row
\* with that key, whatever rows are skipped before or after it; this holds
\* for parse_summary_file and for parse_results_summary.
C10_LastRowWins ==
    (prog = "summary_table" /\ pc = "loaded") =>
        /\ \A i \in MergeValidRows :
               /\ RowKey(i) \in DOMAIN merge_table
               /\ merge_table[RowKey(i)] = MergeRowTuple(RowParts(LastOfKey(MergeValidRows, i)))
        /\ \A i \in ScaledValidRows :
               /\ RowKey(i) \in DOMAIN scaled_table
               /\ scaled_table[RowKey(i)] = ToFloat(RowParts(LastOfKey(ScaledValidRows, i))[4])

\* key 1 on two loaded rows with different values, then a skipped row with key 1
C10_Witness ==
    /\ prog = "summary_table" /\ pc = "loaded"
    /\ table_lines = <<R_1a, R_1b, R_short>>
    /\ merge_table[1].predicted_ns_per_call = Rat(7, 1)
    /\ scaled_table[1] = Rat(7, 1)

\* ---- the rows a loader filters out (SpecTable)
RowBlank(i) == Strip(table_lines[i]) = <<>>
RowComment(i) == ~RowBlank(i) /\ Strip(table_lines[i])[1] = "#"
RowHeader(i) == ~RowBlank(i) /\ RowParts(i)[1] = <<"SMP">>
RowShort(i) == Len(RowParts(i)) < MIN_FIELDS

\* a field parse_summary_file converts is not a number (int for SMP, float for the next seven)
MergeNonNumeric(i) ==
    \E k \in 1..8 :
        /\ k <= Len(RowParts(i))
        /\ IF k = 1 THEN ~IsInt(RowParts(i)[k]) ELSE ~IsFloat(RowParts(i)[k])

\* a field parse_results_summary converts is not a number (SMP and ns_per_call)
ScaledNonNumeric(i) ==
    \/ Len(RowParts(i)) >= 1 /\ ~IsInt(RowParts(i)[1])
    \/ Len(RowParts(i)) >= 4 /\ ~IsFloat(RowParts(i)[4])

MergeFiltered(i) ==
    RowBlank(i) \/ RowComment(i) \/ RowHeader(i) \/ RowShort(i) \/ MergeNonNumeric(i)

ScaledFiltered(i) ==
    RowBlank(i) \/ RowComment(i) \/ RowHeader(i) \/ RowShort(i) \/ ScaledNonNumeric(i)

TableIndexes == 1..Len(table_lines)

\* C11: summary-table row filtering.  Blank lines, '#' lines, the header
\* row, rows with fewer than 10 fields and rows with a non-numeric required
\* field add no entry and do not end the file: the mapping is the one of the
\* table without such a row, and its keys are exactly the SMP values of the
\* other rows.  This holds for parse_summary_file (fields 1 to 8 required)
\* and for parse_results_summary (fields 1 and 4 required).
C11_RowFiltering ==
    (prog = "summary_table" /\ pc = "loaded") =>
        /\ DOMAIN merge_table = {RowKey(i) : i \in {j \in TableIndexes : ~MergeFiltered(j)}}
        /\ \A i \in TableIndexes :
               MergeFiltered(i) =>
                   merge_table = parse_summary_file(RemoveAt(table_lines, i))
        /\ DOMAIN scaled_table = {RowKey(i) : i \in {j \in TableIndexes : ~ScaledFiltered(j)}}
        /\ \A i \in TableIndexes :
               ScaledFiltered(i) =>
                   scaled_table = parse_results_summary(RemoveAt(table_lines, i))

\* a valid row loaded after two filtered rows, one of them with a bad field
C11_Witness ==
    /\ prog = "summary_table" /\ pc = "loaded"
    /\ Len(table_lines) = 3
    /\ MergeFiltered(1) /\ table_lines[2] = R_badfield /\ table_lines[3] = R_2
    /\ DOMAIN merge_table = {2}
    /\ DOMAIN scaled_table = {1, 2}

\* ---- malformed event lines (SpecLog)
\* a 'diff:' line with a missing field or a non-numeric diff or total
Malformed(raw) == StartsWithDiff(Strip(raw)) /\ ~PercParsable(raw)

\* the ns_per_call value of a line, from its total field alone
NsValueOf(raw) == RatDiv(ToFloat(Field(Strip(raw), 2)), Rat(2 * NS_SCALE, 1))

\* C12 as claimed: a malformed 'diff:' line (field missing, diff or total
\* non-numeric) contributes to neither ns_values nor perc_values: both lists
\* are those of the log without the line.
C12_MalformedSkippedWhole ==
    (prog = "time_log" /\ pc = "parsed") =>
        \A i \in LineIndexes :
            Malformed(log_lines[i]) =>
                /\ ns_values = parse_ns_per_call_time_log(RemoveAt(log_lines, i))
                /\ perc_values = parse_percentage_time_log(RemoveAt(log_lines, i))

\* C12 amended: a malformed 'diff:' line never adds to perc_values and never
\* stops the later lines.  It adds nothing to ns_values when its total field
\* is missing or non-numeric; when only its diff is non-numeric and its
\* total is a number not above 1e8, it still adds total / 2 / 1e6 to
\* ns_values, in the line's place.
C12_MalformedSkippedPerPass ==
    (prog = "time_log" /\ pc = "parsed") =>
        \A i \in LineIndexes :
            Malformed(log_lines[i]) =>
                /\ perc_values = parse_percentage_time_log(RemoveAt(log_lines, i))
                /\ (~NsParsable(log_lines[i]) \/ IsOutlier(log_lines[i])) =>
                       ns_values = parse_ns_per_call_time_log(RemoveAt(log_lines, i))
                /\ (NsParsable(log_lines[i]) /\ ~IsOutlier(log_lines[i])) =>
                       ns_values =
                           parse_ns_per_call_time_log(SubSeq(log_lines, 1, i - 1))
                           \o <<NsValueOf(log_lines[i])>>
                           \o parse_ns_per_call_time_log(
                                  SubSeq(log_lines, i + 1, Len(log_lines)))

\* a line with a non-numeric diff and a line without a total, before a good line
C12_Witness ==
    /\ prog = "time_log" /\ pc = "parsed"
    /\ log_lines = <<L_baddiff, L_short, L_ok>>
    /\ ns_values = <<Rat(3, 100000), Rat(3, 100000)>>
    /\ perc_values = <<Rat(3, 5)>>

\* ---- cells without a summary row (Spec)
\* the environment whose cells avg_ns_list and avg_perc_list hold
ListEnv == IF pc \in {"env", "crashed"} THEN env - 1 ELSE env

ListCells == IF prog = "scaled" /\ ListEnv >= 1 THEN 1..Len(avg_ns_list) ELSE {}

\* C13 as claimed: a cell whose SMP has no summary row is never skipped; its
\* log is still read, so its two averages are the means over the log's
\* retained values, in the aggregator and in the per-environment script.
C13_AbsentRowStillReadsLog ==
    /\ prog = "scaled_merge" =>
           \A e \in Envs, s \in Smps :
               (Processed(e, s) /\ s \notin DOMAIN SummaryOf(e)) =>
                   /\ \A name \in SummaryMatrixNames : mat[name][e][s] = Zero
                   /\ mat.avg_real_ns_call[e][s] = Average(NsVals(timeLogs[e][s]))
                   /\ mat.avg_percentage[e][s] = Average(PercVals(timeLogs[e][s]))
    /\ \A s \in ListCells :
           s \notin DOMAIN smp_data =>
               /\ avg_ns_list[s] = Average(NsVals(timeLogs[ListEnv][s]))
               /\ avg_perc_list[s] = Average(PercVals(timeLogs[ListEnv][s]))

\* C13 amended: in the aggregator a cell without a summary row has 0.0 in the
\* seven summary fields and its log is still read, so its two averages are
\* the means over the log's retained values.  In the per-environment script
\* such a cell gets 0.0 in avg_ns_list and avg_perc_list without its log
\* being read; a cell with a row gets the means over its log.  Either way
\* the cell has an entry in every list.
C13_AbsentRow ==
    /\ prog = "scaled_merge" =>
           \A e \in Envs, s \in Smps :
               (Processed(e, s) /\ s \notin DOMAIN SummaryOf(e)) =>
                   /\ \A name \in SummaryMatrixNames : mat[name][e][s] = Zero
                   /\ mat.avg_real_ns_call[e][s] = Average(NsVals(timeLogs[e][s]))
                   /\ mat.avg_percentage[e][s] = Average(PercVals(timeLogs[e][s]))
    /\ prog = "scaled" =>
           /\ Len(avg_perc_list) = Len(avg_ns_list)
           /\ (pc = "done" \/ (pc = "env" /\ env > 1)) => Len(avg_ns_list) = NUM_SMP
           /\ \A s \in ListCells :
                  IF s \in DOMAIN smp_data
                  THEN /\ avg_ns_list[s] = Average(NsVals(timeLogs[ListEnv][s]))
                       /\ avg_perc_list[s] = Average(PercVals(timeLogs[ListEnv][s]))
                  ELSE /\ avg_ns_list[s] = Zero
                       /\ avg_perc_list[s] = Zero

\* an aggregator cell without a summary row whose log has retained values
C13_Witness ==
    /\ prog = "scaled_merge"
    /\ \E e \in Envs, s \in Smps :
           /\ Processed(e, s)
           /\ s \notin DOMAIN SummaryOf(e)
           /\ mat.predict_ns_call[e][s] = Zero
           /\ Len(NsVals(timeLogs[e][s])) >= 1
           /\ mat.avg_real_ns_call[e][s] # Zero
           /\ mat.avg_percentage[e][s] # Zero

\* ---- the averages of a cell (Spec)
\* the values the per-environment script collects for cell s of ListEnv:
\* none when the summary has no row for s, for then the log is not opened
ScaledNs(s) ==
    IF s \in DOMAIN smp_data THEN NsVals(timeLogs[ListEnv][s]) ELSE <<>>

ScaledPerc(s) ==
    IF s \in DOMAIN smp_data THEN PercVals(timeLogs[ListEnv][s]) ELSE <<>>

\* avg is the sum of vals over their count, or 0.0 when there is none
GuardedMean(avg, vals) ==
    IF Len(vals) >= 1
    THEN avg = RatDiv(RatSum(vals), Rat(Len(vals), 1))
    ELSE avg = Zero

\* C14 as claimed: for every cell of both scripts the two averages are the
\* sum of the values retained from the cell's log divided by their count
\* when there is at least one, and exactly 0.0 when there is none.
C14_MeanOfLogValues ==
    /\ prog = "scaled_merge" =>
           \A e \in Envs, s \in Smps :
               Processed(e, s) =>
                   /\ GuardedMean(mat.avg_real_ns_call[e][s], NsVals(timeLogs[e][s]))
                   /\ GuardedMean(mat.avg_percentage[e][s], PercVals(timeLogs[e][s]))
    /\ prog = "scaled" =>
           \A s \in ListCells :
               /\ GuardedMean(avg_ns_list[s], NsVals(timeLogs[ListEnv][s]))
               /\ GuardedMean(avg_perc_list[s], PercVals(timeLogs[ListEnv][s]))

\* C14 amended: averages are guarded against an empty sample.  For every
\* cell whose log the script reads (every cell of the aggregator, the cells
\* with a summary row in the per-environment script) the two averages are
\* the sum of the retained values divided by their count when there is at
\* least one, and exactly 0.0 when there is none; a cell of the
\* per-environment script without a summary row has 0.0 whatever its log
\* holds.  No script stops in a cell because of a division by a zero count
\* (the only stop of these two scripts is the absent summary table).
C14_GuardedAverage ==
    /\ prog = "scaled_merge" =>
           \A e \in Envs, s \in Smps :
               Processed(e, s) =>
                   /\ GuardedMean(mat.avg_real_ns_call[e][s], NsVals(timeLogs[e][s]))
                   /\ GuardedMean(mat.avg_percentage[e][s], PercVals(timeLogs[e][s]))
    /\ prog = "scaled" =>
           \A s \in ListCells :
               /\ GuardedMean(avg_ns_list[s], ScaledNs(s))
               /\ GuardedMean(avg_perc_list[s], ScaledPerc(s))
    /\ (prog \in {"scaled_merge", "scaled"} /\ pc = "crashed") =>
           ~summaryFiles[env].exists

\* a cell whose log gives two ns_per_call values and no percentage
C14_Witness ==
    /\ prog = "scaled_merge"
    /\ \E e \in Envs, s \in Smps :
           /\ Processed(e, s)
           /\ timeLogs[e][s].exists
           /\ Len(NsVals(timeLogs[e][s])) = 2
           /\ PercVals(timeLogs[e][s]) = <<>>
           /\ mat.avg_real_ns_call[e][s] = Rat(3, 100000)
           /\ mat.avg_percentage[e][s] = Zero

\* ---- one cell of the boot-log scripts (Spec)
\* what the claim expects of a log: each value from the first match of its
\* own pattern in the stripped text, the default when the pattern is absent
CellExpected(raw) ==
    [boot |-> IF BootSearch(remove_ansi_codes(raw)) # <<>>
              THEN ToFloat(<<BootSearch(remove_ansi_codes(raw))[1]>>) ELSE Zero,
     called |-> IF BootSearch(remove_ansi_codes(raw)) # <<>>
                THEN ToInt(<<BootSearch(remove_ansi_codes(raw))[2]>>) ELSE 0,
     offset |-> IF OffsetSearch(remove_ansi_codes(raw)) # <<>>
                THEN ToInt(OffsetSearch(remove_ansi_codes(raw))) ELSE 0]

\* the values of four logs of the catalog, written out
KnownCell(file, cell) ==
    /\ file = File(B_offset_only) => cell = [boot |-> Zero, called |-> 0, offset |-> 3]
    /\ file = File(B_upper) => cell = [boot |-> Rat(7, 1), called |-> 1, offset |-> 0]
    /\ file = File(B_second) => cell = [boot |-> Rat(1, 2), called |-> 5, offset |-> 2]
    /\ file = File(B_good) => cell = [boot |-> Rat(7, 2), called |-> 100, offset |-> -545]

\* the three series of draw_increase_merge.py read as one cell
SeriesCell(bd, cd, od, e, s) == [boot |-> bd[e][s], called |-> cd[e][s], offset |-> od[e][s]]

\* a step of draw_increase_merge.py that stores the values of an existing log
StoresMergeCell ==
    /\ prog = "increase_merge" /\ pc = "cell"
    /\ bootLogs[env][smp].exists
    /\ pc' # "crashed"

\* a step of draw_increase.py that stores the values of an existing log
StoresCell ==
    /\ prog = "increase" /\ pc = "cell"
    /\ bootLogs[env][smp].exists
    /\ pc' # "crashed"

C15_Step ==
    /\ StoresMergeCell =>
           /\ SeriesCell(boot_data', called_data', offset_data', env, smp)
                  = CellExpected(bootLogs[env][smp].content)
           /\ KnownCell(bootLogs[env][smp],
                        SeriesCell(boot_data', called_data', offset_data', env, smp))
           /\ \A e \in Envs, s \in Smps :
                  <<e, s>> # <<env, smp>> =>
                      SeriesCell(boot_data', called_data', offset_data', e, s)
                          = SeriesCell(boot_data, called_data, offset_data, e, s)
           /\ \A e \in Envs :
                  /\ DOMAIN boot_data' = Envs /\ Len(boot_data'[e]) = NUM_SMP
                  /\ DOMAIN called_data' = Envs /\ Len(called_data'[e]) = NUM_SMP
                  /\ DOMAIN offset_data' = Envs /\ Len(offset_data'[e]) = NUM_SMP
    /\ StoresCell =>
           /\ smp \in DOMAIN data' /\ env \in DOMAIN data'[smp]
           /\ data'[smp][env] = CellExpected(bootLogs[env][smp].content)
           /\ KnownCell(bootLogs[env][smp], data'[smp][env])
           /\ \A s \in DOMAIN data : \A e \in DOMAIN data[s] :
                  <<e, s>> # <<env, smp>> =>
                      /\ s \in DOMAIN data' /\ e \in DOMAIN data'[s]
                      /\ data'[s][e] = data[s][e]
           /\ \A s \in DOMAIN data' : \A e \in DOMAIN data'[s] :
                  <<e, s>> # <<env, smp>> => HasData(s, e)

\* C15: boot and offset extraction for a log that exists.  Every step that
\* processes an existing log stores, at the cell of (environment, SMP), the
\* boot pair of the first boot match and the offset of the first offset
\* match of the stripped text, each with its own default when its pattern
\* is absent (offset only: 0.0, 0 and the offset; boot only: the pair and
\* 0), and leaves every other cell as it was.
C15_CellExtraction == [][C15_Step]_vars

\* the finished series hold the values of an offset-only log, of a
\* boot-only log and of a log with two boot lines, next to untouched cells
C15_Witness ==
    /\ prog = "increase_merge" /\ pc = "done"
    /\ \E e \in Envs, s \in Smps :
           /\ bootLogs[e][s] = File(B_offset_only)
           /\ boot_data[e][s] = Zero /\ called_data[e][s] = 0 /\ offset_data[e][s] = 3
    /\ \E e \in Envs, s \in Smps :
           /\ bootLogs[e][s] = File(B_upper)
           /\ boot_data[e][s] = Rat(7, 1) /\ called_data[e][s] = 1 /\ offset_data[e][s] = 0

\* ---- the two passes over one log (SpecLog)
\* line i is retained by the ns_per_call pass
Retained(i) == NsParsable(log_lines[i]) /\ ~IsOutlier(log_lines[i])

\* the diff field of line i is not a number
DiffNonNumeric(i) ==
    StartsWithDiff(Strip(log_lines[i])) /\ ~IsFloat(Field(Strip(log_lines[i]), 1))

\* line i contributes a value to the list: without it the list is another one
ContributesNs(i) == ns_values # parse_ns_per_call_time_log(RemoveAt(log_lines, i))
ContributesPerc(i) == perc_values # parse_percentage_time_log(RemoveAt(log_lines, i))

\* C16: relation between the two passes over the same log.  Every line that
\* contributes to perc_values contributes to ns_values, so perc_values is
\* never longer than ns_values; the lines that contribute to ns_values only
\* are exactly the retained lines whose diff is 0 or not a number, and their
\* count is the difference of the two lengths.
C16_PassRelation ==
    (prog = "time_log" /\ pc = "parsed") =>
        /\ \A i \in LineIndexes : ContributesPerc(i) => ContributesNs(i)
        /\ Len(perc_values) <= Len(ns_values)
        /\ \A i \in LineIndexes :
               (ContributesNs(i) /\ ~ContributesPerc(i))
                   <=> (Retained(i) /\ (DiffIsZero(log_lines[i]) \/ DiffNonNumeric(i)))
        /\ Len(ns_values) - Len(perc_values) =
               Cardinality({i \in LineIndexes :
                               Retained(i) /\ (DiffIsZero(log_lines[i]) \/ DiffNonNumeric(i))})

\* the first percentage comes from the third line, the first ns_per_call from the first
C16_Witness ==
    /\ prog = "time_log" /\ pc = "parsed"
    /\ log_lines = <<L_zero, L_baddiff, L_padded>>
    /\ ns_values = <<Rat(3, 100000), Rat(3, 100000), Rat(1, 25000)>>
    /\ perc_values = <<Rat(2, 5)>>

====
